---- MODULE Spec2Model ----
(***************************************************************************)
(* Model of src/main.go: a batch HTTPS prober.  main loads Domain records  *)
(* from a CSV file, keeps a fixed prefix of them, starts a fixed pool of   *)
(* worker goroutines that read a jobs channel and write a results channel, *)
(* a closer goroutine that closes results once the WaitGroup reaches zero, *)
(* and then drains results into counters, per-result lines and a summary.  *)
(*                                                                         *)
(* Scaling.  The program's numWorkers is 10 (main.go:122) and its prefix   *)
(* length is 200 (main.go:131).  Both are scaled down here (numWorkers,    *)
(* PrefixLen) so that the interleavings can be enumerated; every formula   *)
(* is written in terms of the two names, not of their values.              *)
(*                                                                         *)
(* Not modelled: Result.Duration and the wall clock (time.Now, time.Since, *)
(* the 10s timeouts).  A request is a step that starts and a step that     *)
(* returns with a response or an error.                                    *)
(***************************************************************************)
EXTENDS Integers, Sequences, FiniteSets, TLC

\* ------------------------------------------------------------------ bounds
\* number of workers started by main (10 in the program, main.go:122)
numWorkers == 2
\* length of the prefix main keeps of the loaded list (200 in the program, main.go:131)
PrefixLen == 4
\* largest number of data rows in an input file
MaxRows == 5

\* ------------------------------------------------------------- input space
\* A CSV record is a sequence of fields.  A field holding a bare quote stands
\* for a record encoding/csv cannot parse (csv.ErrBareQuote).
BareQuoteFields == {"a\"b"}

\* The data rows input files are made of: file n holds the first n of them.
\* Row 3 repeats row 1 (duplicates are processed independently).
RowAt(i) ==
    CASE i % 5 = 1 -> <<"moved.org", "tech">>
      [] i % 5 = 2 -> <<"b c", "test">>
      [] i % 5 = 3 -> <<"moved.org", "tech">>
      [] i % 5 = 4 -> <<"gone.net", "test">>
      [] OTHER     -> <<"ok.com", "tech">>

Rows(n) == [i \in 1..n |-> RowAt(i)]

\* Rows that make a file defective: one field, three fields, a bare quote.
DefectRows == { <<"x">>, <<"x.com", "tech", "note">>, <<"a\"b", "tech">> }

\* exists = FALSE: os.Open fails.  records = <<>>: an empty file (no header).
Files ==
    { [exists |-> FALSE, records |-> <<>>], [exists |-> TRUE, records |-> <<>>] }
    \cup { [exists |-> TRUE, records |-> << <<"domain", "category">> >> \o Rows(n)] :
              n \in 0..MaxRows }
    \cup UNION { { [exists |-> TRUE,
                    records |-> << <<"domain", "category">> >> \o [Rows(n) EXCEPT ![k] = d]] :
                      k \in 1..n, d \in DefectRows } : n \in 1..MaxRows }
    \cup { [exists |-> TRUE, records |-> << <<"domain">> >> \o [i \in 1..n |-> <<"x">>]] :
              n \in 0..MaxRows }

\* ------------------------------------------------------------ Go slices
\* The zero value of Domain (main.go:16-19).
ZeroDomain == [Name |-> "", Category |-> ""]

\* A Go slice of Domain: the backing array (its length is the capacity) and
\* the slice length.  A nil slice has an empty backing array.
NilSlice == [arr |-> <<>>, len |-> 0]

Cap(s) == Len(s.arr)

Elems(s) == SubSeq(s.arr, 1, s.len)

\* runtime.growslice for an append of one element: the capacity doubles
\* (from 0 it becomes 1) while it is below the runtime's 256-element threshold;
\* a Domain is 32 bytes, so every doubled size is a malloc size class.
GrowCap(oldCap) == IF oldCap = 0 THEN 1 ELSE 2 * oldCap

\* append(s, x): in place when capacity allows, else into a fresh zeroed array.
GoAppend(s, x) ==
    IF s.len < Cap(s)
    THEN [arr |-> [s.arr EXCEPT ![s.len + 1] = x], len |-> s.len + 1]
    ELSE [arr |-> [i \in 1..GrowCap(Cap(s)) |->
                      IF i <= s.len THEN s.arr[i]
                      ELSE IF i = s.len + 1 THEN x ELSE ZeroDomain],
          len |-> s.len + 1]

\* ------------------------------------------------------------ the loader
IsParseError(rec) == \E i \in 1..Len(rec) : rec[i] \in BareQuoteFields

\* csv.Reader.Read on record rec when the reader's FieldsPerRecord is fpr:
\* a parse error, or ErrFieldCount when the field count differs from the
\* first record's (FieldsPerRecord is 0 in csv.NewReader, so the first record
\* read sets it).
ReadErr(rec, fpr) == IsParseError(rec) \/ Len(rec) # fpr

\* The loop of main.go:100-115 from data row k on, domains accumulated in acc.
RECURSIVE ReadLoop(_, _, _, _)
ReadLoop(recs, k, fpr, acc) ==
    IF k > Len(recs) THEN [err |-> "nil", domains |-> acc]
    ELSE IF ReadErr(recs[k], fpr) THEN [err |-> "error reading record", domains |-> NilSlice]
    ELSE IF Len(recs[k]) >= 2
         THEN ReadLoop(recs, k + 1, fpr,
                       GoAppend(acc, [Name |-> recs[k][1], Category |-> recs[k][2]]))
         ELSE ReadLoop(recs, k + 1, fpr, acc)

\* ReadDomainsFromCSV without the read that skips the header
ReadDomainsFromCSV_HeaderKept(f) ==
    IF ~f.exists THEN [err |-> "error opening file", domains |-> NilSlice]
    ELSE IF f.records = <<>> \/ IsParseError(f.records[1])
         THEN [err |-> "error reading header", domains |-> NilSlice]
    ELSE ReadLoop(f.records, 1, Len(f.records[1]), NilSlice)

ReadDomainsFromCSV(f) ==
    IF ~f.exists THEN [err |-> "error opening file", domains |-> NilSlice]
    ELSE IF f.records = <<>> \/ IsParseError(f.records[1])
         THEN [err |-> "error reading header", domains |-> NilSlice]
    ELSE ReadLoop(f.records, 2, Len(f.records[1]), NilSlice)

\* ------------------------------------------------------------ requests
\* Names for which http.NewRequestWithContext fails: url.Parse rejects
\* "https://b c" (invalid character " " in host name).
BadURLNames == {"b c"}

\* The status code the server of each name answers with, when it answers.  A
\* 3xx answer is returned as it is: CheckRedirect returns
\* http.ErrUseLastResponse (main.go:36-38).
ServerStatus(name) ==
    CASE name = "moved.org" -> 301
      [] name = "gone.net"  -> 404
      [] OTHER              -> 200

\* DoOutcomes with a status code recorded beside the error
DoOutcomes_StatusOnError(name) ==
    { [StatusCode |-> ServerStatus(name), Error |-> "transport"] }
    \cup (IF name = "" THEN {}
          ELSE { [StatusCode |-> ServerStatus(name), Error |-> "nil"] })

\* What client.Do returns for a request to https://<name>: a transport error
\* (DNS, TLS, refused, timeout), or a response.  With an empty name the URL has
\* no host and Do always fails ("http: no Host in request URL").
DoOutcomes(name) ==
    { [StatusCode |-> 0, Error |-> "transport"] }
    \cup (IF name = "" THEN {}
          ELSE { [StatusCode |-> ServerStatus(name), Error |-> "nil"] })

\* Result{Domain: domain} (main.go:45); Duration is not modelled.
NewResult(d) == [Domain |-> d, StatusCode |-> 0, Error |-> "nil"]

ZeroResult == NewResult(ZeroDomain)

\* ---------------------------------------------------------------- state
VARIABLES
    file,          \* the input file (never changes)
    mainpc,        \* position of the main goroutine
    exitStatus,    \* "running", or how the process ended
    loaded,        \* the records ReadDomainsFromCSV returned (main.go:126)
    domains,       \* the slice main works on
    jobs,          \* buffer of the jobs channel
    jobsClosed,    \* number of times close(jobs) was executed
    results,       \* buffer of the results channel
    resultsClosed, \* number of times close(results) was executed
    chanCap,       \* capacity of both channels (main.go:137-138)
    wg,            \* the WaitGroup counter
    w,             \* loop variable of main.go:142
    sent,          \* number of domains main has put on jobs (main.go:148)
    wpc,           \* position of each started worker
    wres,          \* the result variable of each started worker
    inflight,      \* number of client.Do calls that have not returned
    closerpc,      \* position of the goroutine of main.go:154-157
    successful, failed, statusCodes, categoryStats,
    printed,       \* the per-result lines printed so far: line -> number of copies
    summary,       \* the summary, once printed
    hist           \* history of who produced which result (recorded when switched on)

vars == << file, mainpc, exitStatus, loaded, domains, jobs, jobsClosed, results,
           resultsClosed, chanCap, wg, w, sent, wpc, wres, inflight, closerpc,
           successful, failed, statusCodes, categoryStats, printed, summary, hist >>

mainVars == << mainpc, exitStatus, loaded, domains, chanCap, w, sent >>
chanVars == << jobs, jobsClosed, results, resultsClosed >>
workerVars == << wpc, wres, inflight, wg >>
aggVars == << successful, failed, statusCodes, categoryStats, printed, summary >>

NoSummary == [printed |-> FALSE]

\* The history variable: switched off, or recording for each worker the index
\* (in enqueue order) of the job it holds (0: none) and for each Result on the
\* result queue the worker that sent it and the index of its job.
NoHistory == [on |-> FALSE]

EmptyHistory == [on |-> TRUE, held |-> <<>>, queue |-> <<>>]

HistStart(h) ==
    IF ~h.on THEN h ELSE [h EXCEPT !.held = Append(@, 0)]

HistDequeue(h, k, j) == IF ~h.on THEN h ELSE [h EXCEPT !.held[k] = j]

HistSend(h, k) ==
    IF ~h.on THEN h
    ELSE [h EXCEPT !.queue = Append(@, [by |-> k, job |-> h.held[k]]), !.held[k] = 0]

HistConsume(h) ==
    IF ~h.on THEN h
    ELSE [h EXCEPT !.queue = Tail(@)]

\* the state in which main starts on input file f
StartState(f, h) ==
    /\ file = f
    /\ mainpc = "load"
    /\ exitStatus = "running"
    /\ loaded = <<>>
    /\ domains = NilSlice
    /\ jobs = <<>> /\ jobsClosed = 0
    /\ results = <<>> /\ resultsClosed = 0
    /\ chanCap = 0
    /\ wg = 0
    /\ w = 1
    /\ sent = 0
    /\ wpc = <<>> /\ wres = <<>>
    /\ inflight = 0
    /\ closerpc = "none"
    /\ successful = 0 /\ failed = 0
    /\ statusCodes = <<>> /\ categoryStats = <<>>
    /\ printed = <<>>
    /\ summary = NoSummary
    /\ hist = h

Init == \E f \in Files : StartState(f, NoHistory)

Running == exitStatus = "running"

\* --------------------------------------------------------------- main
\* Load with the error of ReadDomainsFromCSV ignored
Load_IgnoreError ==
    /\ Running /\ mainpc = "load"
    /\ LET r == ReadDomainsFromCSV(file)
       IN  /\ mainpc' = "slice"
           /\ loaded' = Elems(r.domains)
           /\ domains' = r.domains
           /\ UNCHANGED exitStatus
    /\ UNCHANGED << file, hist, chanCap, w, sent, chanVars, workerVars, closerpc, aggVars >>

\* main.go:126-129
Load ==
    /\ Running /\ mainpc = "load"
    /\ LET r == ReadDomainsFromCSV(file)
       IN  IF r.err # "nil"
           THEN /\ exitStatus' = "fatal"
                /\ UNCHANGED << mainpc, loaded, domains >>
           ELSE /\ mainpc' = "slice"
                /\ loaded' = Elems(r.domains)
                /\ domains' = r.domains
                /\ UNCHANGED exitStatus
    /\ UNCHANGED << file, hist, chanCap, w, sent, chanVars, workerVars, closerpc, aggVars >>

\* main.go:131  domains = domains[:200]: a slice expression may extend a slice
\* up to its capacity (the added elements are whatever the backing array
\* holds) and panics beyond it.
Truncate ==
    /\ Running /\ mainpc = "slice"
    /\ IF PrefixLen > Cap(domains)
       THEN /\ exitStatus' = "panic: slice bounds out of range"
            /\ UNCHANGED << mainpc, domains >>
       ELSE /\ domains' = [domains EXCEPT !.len = PrefixLen]
            /\ mainpc' = "make"
            /\ UNCHANGED exitStatus
    /\ UNCHANGED << file, hist, loaded, chanCap, w, sent, chanVars, workerVars, closerpc, aggVars >>

\* MakeChannels with the channels sized to the worker count
MakeChannels_CapWorkers ==
    /\ Running /\ mainpc = "make"
    /\ chanCap' = numWorkers
    /\ mainpc' = "spawn"
    /\ UNCHANGED << file, hist, exitStatus, loaded, domains, w, sent, chanVars, workerVars,
                    closerpc, aggVars >>

\* main.go:137-138
MakeChannels ==
    /\ Running /\ mainpc = "make"
    /\ chanCap' = domains.len
    /\ mainpc' = "spawn"
    /\ UNCHANGED << file, hist, exitStatus, loaded, domains, w, sent, chanVars, workerVars,
                    closerpc, aggVars >>

\* StartWorker with the loop bound off by one (w <= numWorkers + 1)
StartWorker_OneMore ==
    /\ Running /\ mainpc = "spawn"
    /\ IF w <= numWorkers + 1
       THEN /\ wg' = wg + 1
            /\ wpc' = Append(wpc, "recv")
            /\ wres' = Append(wres, ZeroResult)
            /\ w' = w + 1
            /\ hist' = HistStart(hist)
            /\ UNCHANGED mainpc
       ELSE /\ mainpc' = "enqueue"
            /\ UNCHANGED << wg, wpc, wres, w, hist >>
    /\ UNCHANGED << file, exitStatus, loaded, domains, chanCap, sent, chanVars, inflight,
                    closerpc, aggVars >>

\* main.go:142-145: one iteration of the loop, or leaving it
StartWorker ==
    /\ Running /\ mainpc = "spawn"
    /\ IF w <= numWorkers
       THEN /\ wg' = wg + 1
            /\ wpc' = Append(wpc, "recv")
            /\ wres' = Append(wres, ZeroResult)
            /\ w' = w + 1
            /\ hist' = HistStart(hist)
            /\ UNCHANGED mainpc
       ELSE /\ mainpc' = "enqueue"
            /\ UNCHANGED << wg, wpc, wres, w, hist >>
    /\ UNCHANGED << file, exitStatus, loaded, domains, chanCap, sent, chanVars, inflight,
                    closerpc, aggVars >>

\* main.go:148-150: one iteration of the loop, or leaving it.  A send blocks
\* while the buffer is full and panics on a closed channel.
SendJob ==
    /\ Running /\ mainpc = "enqueue"
    /\ IF sent < domains.len
       THEN IF jobsClosed > 0
            THEN /\ exitStatus' = "panic: send on closed channel"
                 /\ UNCHANGED << jobs, sent, mainpc >>
            ELSE /\ Len(jobs) < chanCap
                 /\ jobs' = Append(jobs, domains.arr[sent + 1])
                 /\ sent' = sent + 1
                 /\ UNCHANGED << mainpc, exitStatus >>
       ELSE /\ mainpc' = "closejobs"
            /\ UNCHANGED << jobs, sent, exitStatus >>
    /\ UNCHANGED << file, hist, loaded, domains, chanCap, w, jobsClosed, results, resultsClosed,
                    workerVars, closerpc, aggVars >>

\* CloseJobs with the close(jobs) statement left out
CloseJobs_Forgotten ==
    /\ Running /\ mainpc = "closejobs"
    /\ mainpc' = "gocloser"
    /\ UNCHANGED << file, hist, exitStatus, loaded, domains, chanCap, w, sent, chanVars,
                    workerVars, closerpc, aggVars >>

\* main.go:151
CloseJobs ==
    /\ Running /\ mainpc = "closejobs"
    /\ IF jobsClosed > 0
       THEN /\ exitStatus' = "panic: close of closed channel"
            /\ UNCHANGED << jobsClosed, mainpc >>
       ELSE /\ jobsClosed' = jobsClosed + 1
            /\ mainpc' = "gocloser"
            /\ UNCHANGED exitStatus
    /\ UNCHANGED << file, hist, loaded, domains, chanCap, w, sent, jobs, results, resultsClosed,
                    workerVars, closerpc, aggVars >>

\* main.go:154 (the go statement)
StartCloser ==
    /\ Running /\ mainpc = "gocloser"
    /\ closerpc' = "wait"
    /\ mainpc' = "drain"
    /\ UNCHANGED << file, hist, exitStatus, loaded, domains, chanCap, w, sent, chanVars,
                    workerVars, aggVars >>

\* --------------------------------------------------------------- closer
\* CloserWait with the wg.Wait() left out
CloserWait_NoWait ==
    /\ Running /\ closerpc = "wait"
    /\ closerpc' = "close"
    /\ UNCHANGED << file, hist, mainVars, chanVars, workerVars, aggVars >>

\* main.go:155  wg.Wait() returns once the counter is zero
CloserWait ==
    /\ Running /\ closerpc = "wait"
    /\ wg = 0
    /\ closerpc' = "close"
    /\ UNCHANGED << file, hist, mainVars, chanVars, workerVars, aggVars >>

\* main.go:156
CloserClose ==
    /\ Running /\ closerpc = "close"
    /\ IF resultsClosed > 0
       THEN /\ exitStatus' = "panic: close of closed channel"
            /\ UNCHANGED << resultsClosed, closerpc >>
       ELSE /\ resultsClosed' = resultsClosed + 1
            /\ closerpc' = "done"
            /\ UNCHANGED exitStatus
    /\ UNCHANGED << file, hist, mainpc, loaded, domains, chanCap, w, sent, jobs, jobsClosed,
                    results, workerVars, aggVars >>

\* --------------------------------------------------------------- worker
Workers == DOMAIN wpc

\* main.go:43-59: a job is received; the request is built; when that fails
\* the worker goes to the send of main.go:56, else it enters client.Do.
Dequeue(k) ==
    /\ Running /\ wpc[k] = "recv"
    /\ jobs # <<>>
    /\ jobs' = Tail(jobs)
    /\ hist' = HistDequeue(hist, k, sent - Len(jobs) + 1)
    /\ IF Head(jobs).Name \in BadURLNames
       THEN /\ wres' = [wres EXCEPT ![k] = [NewResult(Head(jobs)) EXCEPT !.Error = "request"]]
            /\ wpc' = [wpc EXCEPT ![k] = "send"]
            /\ UNCHANGED inflight
       ELSE /\ wres' = [wres EXCEPT ![k] = NewResult(Head(jobs))]
            /\ wpc' = [wpc EXCEPT ![k] = "do"]
            /\ inflight' = inflight + 1
    /\ UNCHANGED << file, mainVars, jobsClosed, results, resultsClosed, wg, closerpc, aggVars >>

\* main.go:43 and 31: the range ends when jobs is closed and empty; the
\* deferred wg.Done() runs.
WorkerExit(k) ==
    /\ Running /\ wpc[k] = "recv"
    /\ jobs = <<>> /\ jobsClosed > 0
    /\ wpc' = [wpc EXCEPT ![k] = "done"]
    /\ wg' = wg - 1
    /\ UNCHANGED << file, hist, mainVars, chanVars, wres, inflight, closerpc, aggVars >>

\* main.go:65-71: client.Do returns
DoReturn(k) ==
    /\ Running /\ wpc[k] = "do"
    /\ \E o \in DoOutcomes(wres[k].Domain.Name) :
          wres' = [wres EXCEPT ![k].StatusCode = o.StatusCode, ![k].Error = o.Error]
    /\ wpc' = [wpc EXCEPT ![k] = "send"]
    /\ inflight' = inflight - 1
    /\ UNCHANGED << file, hist, mainVars, chanVars, wg, closerpc, aggVars >>

\* SendResult with the send of main.go:56 left out: a request construction
\* failure continues with the next job without a Result
SendResult_DropRequestError(k) ==
    /\ Running /\ wpc[k] = "send"
    /\ IF resultsClosed > 0
       THEN /\ exitStatus' = "panic: send on closed channel"
            /\ UNCHANGED << results, wpc, wres, hist >>
       ELSE /\ Len(results) < chanCap
            /\ results' = IF wres[k].Error = "request" THEN results ELSE Append(results, wres[k])
            /\ hist' = IF wres[k].Error = "request" THEN hist ELSE HistSend(hist, k)
            /\ wpc' = [wpc EXCEPT ![k] = IF wres[k].Error = "request" THEN "recv" ELSE "sleep"]
            /\ wres' = [wres EXCEPT ![k] = ZeroResult]
            /\ UNCHANGED exitStatus
    /\ UNCHANGED << file, mainpc, loaded, domains, chanCap, w, sent, jobs, jobsClosed,
                    resultsClosed, inflight, wg, closerpc, aggVars >>

\* SendResult with the worker going back to the dequeue after every send
SendResult_NoSleep(k) ==
    /\ Running /\ wpc[k] = "send"
    /\ IF resultsClosed > 0
       THEN /\ exitStatus' = "panic: send on closed channel"
            /\ UNCHANGED << results, wpc, wres, hist >>
       ELSE /\ Len(results) < chanCap
            /\ results' = Append(results, wres[k])
            /\ hist' = HistSend(hist, k)
            /\ wpc' = [wpc EXCEPT ![k] = "recv"]
            /\ wres' = [wres EXCEPT ![k] = ZeroResult]
            /\ UNCHANGED exitStatus
    /\ UNCHANGED << file, mainpc, loaded, domains, chanCap, w, sent, jobs, jobsClosed,
                    resultsClosed, inflight, wg, closerpc, aggVars >>

\* SendResult with a failed probe treated as fatal (log.Fatalf in the worker)
SendResult_FatalOnError(k) ==
    /\ Running /\ wpc[k] = "send"
    /\ IF resultsClosed > 0
       THEN /\ exitStatus' = "panic: send on closed channel"
            /\ UNCHANGED << results, wpc, wres, hist >>
       ELSE IF wres[k].Error # "nil"
       THEN /\ exitStatus' = "fatal"
            /\ UNCHANGED << results, wpc, wres, hist >>
       ELSE /\ Len(results) < chanCap
            /\ results' = Append(results, wres[k])
            /\ hist' = HistSend(hist, k)
            /\ wpc' = [wpc EXCEPT ![k] = "sleep"]
            /\ wres' = [wres EXCEPT ![k] = ZeroResult]
            /\ UNCHANGED exitStatus
    /\ UNCHANGED << file, mainpc, loaded, domains, chanCap, w, sent, jobs, jobsClosed,
                    resultsClosed, inflight, wg, closerpc, aggVars >>

\* main.go:56-58 and 74-75: the result is sent; after a request construction
\* failure the worker continues with the next job, else it goes to the sleep.
\* The result variable is scoped to the iteration and is dead after the send.
SendResult(k) ==
    /\ Running /\ wpc[k] = "send"
    /\ IF resultsClosed > 0
       THEN /\ exitStatus' = "panic: send on closed channel"
            /\ UNCHANGED << results, wpc, wres, hist >>
       ELSE /\ Len(results) < chanCap
            /\ results' = Append(results, wres[k])
            /\ hist' = HistSend(hist, k)
            /\ wpc' = [wpc EXCEPT ![k] = IF wres[k].Error = "request" THEN "recv" ELSE "sleep"]
            /\ wres' = [wres EXCEPT ![k] = ZeroResult]
            /\ UNCHANGED exitStatus
    /\ UNCHANGED << file, mainpc, loaded, domains, chanCap, w, sent, jobs, jobsClosed,
                    resultsClosed, inflight, wg, closerpc, aggVars >>

\* main.go:78
Sleep(k) ==
    /\ Running /\ wpc[k] = "sleep"
    /\ wpc' = [wpc EXCEPT ![k] = "recv"]
    /\ UNCHANGED << file, hist, mainVars, chanVars, wres, inflight, wg, closerpc, aggVars >>

worker(k) ==
    /\ k \in Workers
    /\ (Dequeue(k) \/ WorkerExit(k) \/ DoReturn(k) \/ SendResult(k) \/ Sleep(k))

\* ----------------------------------------------------------- aggregator
\* A Go map: a function whose domain is the set of keys present.
MapGet(m, key, zero) == IF key \in DOMAIN m THEN m[key] ELSE zero

MapPut(m, key, val) == [x \in (DOMAIN m) \cup {key} |-> IF x = key THEN val ELSE m[x]]

ZeroStats == [Total |-> 0, Success |-> 0, Failed |-> 0]

\* StatusIcon with the threshold at 300
StatusIcon_From300(code) == IF code >= 300 THEN "warning" ELSE "ok"

\* main.go:190-193
StatusIcon(code) == IF code >= 400 THEN "warning" ELSE "ok"

\* main.go:180-184 and 195-200: the line printed for a result
Line(r) ==
    IF r.Error # "nil"
    THEN [icon |-> "error", Name |-> r.Domain.Name, Category |-> r.Domain.Category,
          text |-> << "Error", r.Error >>]
    ELSE [icon |-> StatusIcon(r.StatusCode), Name |-> r.Domain.Name,
          Category |-> r.Domain.Category, text |-> << "Status", r.StatusCode >>]

\* NewStats starting from fresh stats instead of the category's entry
NewStats_FromZero(r) ==
    IF r.Error # "nil"
    THEN [ZeroStats EXCEPT !.Total = @ + 1, !.Failed = @ + 1]
    ELSE [ZeroStats EXCEPT !.Total = @ + 1, !.Success = @ + 1]

\* main.go:173-203: the category's stats after result r
NewStats(r) ==
    LET stats == MapGet(categoryStats, r.Domain.Category, ZeroStats)
    IN  IF r.Error # "nil"
        THEN [stats EXCEPT !.Total = @ + 1, !.Failed = @ + 1]
        ELSE [stats EXCEPT !.Total = @ + 1, !.Success = @ + 1]

\* Consume taking the newest result instead of the oldest
Consume_Newest ==
    /\ Running /\ mainpc = "drain"
    /\ results # <<>>
    /\ LET result == results[Len(results)]
       IN  /\ results' = SubSeq(results, 1, Len(results) - 1)
           /\ hist' = IF ~hist.on THEN hist
                      ELSE [hist EXCEPT !.queue = SubSeq(@, 1, Len(@) - 1)]
           /\ IF result.Error # "nil"
              THEN /\ failed' = failed + 1
                   /\ UNCHANGED << successful, statusCodes >>
              ELSE /\ successful' = successful + 1
                   /\ statusCodes' = MapPut(statusCodes, result.StatusCode,
                                            MapGet(statusCodes, result.StatusCode, 0) + 1)
                   /\ UNCHANGED failed
           /\ printed' = MapPut(printed, Line(result), MapGet(printed, Line(result), 0) + 1)
           /\ categoryStats' = MapPut(categoryStats, result.Domain.Category, NewStats(result))
    /\ UNCHANGED << file, mainVars, jobs, jobsClosed, resultsClosed, workerVars, closerpc,
                    summary >>

\* main.go:172-204: one iteration of the range over results
Consume ==
    /\ Running /\ mainpc = "drain"
    /\ results # <<>>
    /\ LET result == Head(results)
       IN  /\ results' = Tail(results)
           /\ hist' = HistConsume(hist)
           /\ IF result.Error # "nil"
              THEN /\ failed' = failed + 1
                   /\ UNCHANGED << successful, statusCodes >>
              ELSE /\ successful' = successful + 1
                   /\ statusCodes' = MapPut(statusCodes, result.StatusCode,
                                            MapGet(statusCodes, result.StatusCode, 0) + 1)
                   /\ UNCHANGED failed
           /\ printed' = MapPut(printed, Line(result), MapGet(printed, Line(result), 0) + 1)
           /\ categoryStats' = MapPut(categoryStats, result.Domain.Category, NewStats(result))
    /\ UNCHANGED << file, mainVars, jobs, jobsClosed, resultsClosed, workerVars, closerpc,
                    summary >>

\* EndDrain with the loop left as soon as no result is waiting
EndDrain_OnEmpty ==
    /\ Running /\ mainpc = "drain"
    /\ results = <<>>
    /\ mainpc' = "summary"
    /\ UNCHANGED << file, hist, exitStatus, loaded, domains, chanCap, w, sent, chanVars,
                    workerVars, closerpc, aggVars >>

\* main.go:172: the range ends when results is closed and empty
EndDrain ==
    /\ Running /\ mainpc = "drain"
    /\ results = <<>> /\ resultsClosed > 0
    /\ mainpc' = "summary"
    /\ UNCHANGED << file, hist, exitStatus, loaded, domains, chanCap, w, sent, chanVars,
                    workerVars, closerpc, aggVars >>

\* main.go:207-226: the summary is printed and main returns
PrintSummary ==
    /\ Running /\ mainpc = "summary"
    /\ summary' = [printed |-> TRUE, total |-> domains.len, successful |-> successful,
                   failed |-> failed, statusCodes |-> statusCodes,
                   categoryStats |-> categoryStats]
    /\ mainpc' = "end"
    /\ exitStatus' = "exit 0"
    /\ UNCHANGED << file, hist, loaded, domains, chanCap, w, sent, chanVars, workerVars, closerpc,
                    successful, failed, statusCodes, categoryStats, printed >>

main ==
    \/ Load \/ Truncate \/ MakeChannels \/ StartWorker \/ SendJob \/ CloseJobs
    \/ StartCloser \/ Consume \/ EndDrain \/ PrintSummary

closer == CloserWait \/ CloserClose

Next == main \/ closer \/ \E k \in Workers : worker(k)

Spec == Init /\ [][Next]_vars

\* The Go scheduler runs every runnable goroutine eventually, and every
\* request returns (client timeout and request context, main.go:35 and 51).
\* Input files are those with at most PrefixLen data rows: a longer file runs
\* the pool on the same domains as the file with PrefixLen rows.
FairInit == \E f \in { g \in Files : Len(g.records) <= PrefixLen + 1 } : StartState(f, NoHistory)

FairSpec ==
    /\ FairInit
    /\ [][Next]_vars
    /\ WF_vars(main)
    /\ WF_vars(closer)
    /\ \A k \in 1..numWorkers : WF_vars(worker(k))

\* ------------------------------------------------- the loader on its own
\* Input files for the loader: a header of one, two or three fields (or a
\* header that does not parse) followed by any sequence of at most MaxRows
\* rows of one, two or three fields or with a bare quote; also the file that
\* cannot be opened and the empty file.
LoadHeaders ==
    { <<"domain">>, <<"domain", "category">>, <<"domain", "category", "note">>, <<"a\"b">> }

LoadRows ==
    { <<"a.com", "tech">>, <<"b c", "test">>, <<"x">>, <<"x.com", "tech", "note">>,
      <<"a\"b", "tech">> }

RECURSIVE SeqsUpTo(_, _)
SeqsUpTo(S, n) ==
    IF n = 0 THEN { <<>> }
    ELSE LET shorter == SeqsUpTo(S, n - 1)
         IN  shorter \cup { Append(t, x) : t \in { u \in shorter : Len(u) = n - 1 }, x \in S }

LoadFiles ==
    { [exists |-> FALSE, records |-> <<>>], [exists |-> TRUE, records |-> <<>>] }
    \cup { [exists |-> TRUE, records |-> <<h>> \o rows] :
              h \in LoadHeaders, rows \in SeqsUpTo(LoadRows, MaxRows) }

LoadInit == \E f \in LoadFiles : StartState(f, NoHistory)

\* main up to the return of ReadDomainsFromCSV
LoadSpec == LoadInit /\ [][Load]_vars

\* -------------------------------------------------- the run with history
\* Input files that start the pool, with the history recorded.
OrderRowAt(i) ==
    CASE i % 5 = 1 -> <<"moved.org", "tech">>
      [] i % 5 = 4 -> <<"gone.net", "test">>
      [] OTHER     -> <<"b c", "test">>

OrderFiles ==
    { [exists |-> TRUE,
       records |-> << <<"domain", "category">> >> \o [i \in 1..n |-> OrderRowAt(i)]] :
         n \in { m \in 0..MaxRows : m + 1 >= PrefixLen /\ m <= PrefixLen } }

OrderInit == \E f \in OrderFiles : StartState(f, EmptyHistory)

OrderSpec == OrderInit /\ [][Next]_vars

\* ============================================================ properties
\* The sum of the values of a map to numbers (a bag's size).
RECURSIVE BagSize(_)
BagSize(b) ==
    IF DOMAIN b = {} THEN 0
    ELSE LET x == CHOOSE y \in DOMAIN b : TRUE
         IN  b[x] + BagSize([y \in (DOMAIN b) \ {x} |-> b[y]])

Count(seq, x) == Cardinality({ i \in 1..Len(seq) : seq[i] = x })

Range(seq) == { seq[i] : i \in 1..Len(seq) }

\* the domains put on the jobs channel so far
Enqueued == SubSeq(domains.arr, 1, sent)

\* workers that hold a job: dequeued, Result not yet sent
Holding == { k \in Workers : wpc[k] \in {"do", "send"} }

LineDomain(l) == [Name |-> l.Name, Category |-> l.Category]

PrintedOf(d) == BagSize([l \in { m \in DOMAIN printed : LineDomain(m) = d } |-> printed[l]])

ErrorLines == { l \in DOMAIN printed : l.text[1] = "Error" }

StatusLines == { l \in DOMAIN printed : l.text[1] = "Status" }

SeenDomains ==
    Range(domains.arr) \cup Range(jobs) \cup { wres[k].Domain : k \in Holding }
    \cup { r.Domain : r \in Range(results) } \cup { LineDomain(l) : l \in DOMAIN printed }

Drained == mainpc \in {"summary", "end"}

PoolStarted == mainpc \in {"spawn", "enqueue", "closejobs", "gocloser", "drain", "summary", "end"}

\* C1: every enqueued Domain is at any time in exactly one place (on the job
\* queue, held by one worker, in one Result on the result queue, or in one
\* consumed Result), and once the aggregator has left its drain loop the
\* consumed Results carry exactly the multiset of Domains of the slice main
\* enqueued.
C1_EachJobOneResult ==
    /\ \A d \in SeenDomains :
          Count(Enqueued, d) =
              Count(jobs, d) + Cardinality({ k \in Holding : wres[k].Domain = d })
              + Cardinality({ i \in 1..Len(results) : results[i].Domain = d }) + PrintedOf(d)
    /\ Drained =>
          /\ sent = domains.len
          /\ \A d \in SeenDomains : PrintedOf(d) = Count(Elems(domains), d)

\* a finished run that consumed a duplicated Domain twice and a failed Result
C1_Witness ==
    /\ exitStatus = "exit 0"
    /\ \E d \in SeenDomains : Count(Enqueued, d) = 2 /\ PrintedOf(d) = 2
    /\ ErrorLines # {}
    /\ StatusLines # {}

\* C2 (as stated): at the summary, successful + failed is the number of
\* results processed, and that is the number of records the loader returned.
C2_TotalIsLoaded ==
    summary.printed =>
        /\ summary.successful + summary.failed = BagSize(printed)
        /\ BagSize(printed) = summary.total
        /\ BagSize(printed) = Len(loaded)

\* C3: at most numWorkers requests are in flight.
C3_InFlightBound ==
    /\ inflight <= numWorkers
    /\ inflight = Cardinality({ k \in Workers : wpc[k] = "do" })

C3_Witness == inflight = numWorkers /\ jobs # <<>>

\* C4: jobs is closed at most once and only after every job was enqueued;
\* results is closed at most once and only after every worker has terminated
\* and the WaitGroup counter is zero; nothing is ever sent on, or closes, a
\* closed channel; the aggregator is past its drain loop only when results is
\* closed and empty; a finished run has closed each channel exactly once.
C4_TwoStageClosure ==
    /\ jobsClosed <= 1
    /\ jobsClosed = 1 => sent = domains.len /\ mainpc \notin {"spawn", "enqueue", "closejobs"}
    /\ resultsClosed <= 1
    /\ resultsClosed = 1 =>
          /\ wg = 0
          /\ jobsClosed = 1
          /\ Cardinality(Workers) = numWorkers
          /\ \A k \in Workers : wpc[k] = "done"
    /\ exitStatus \notin {"panic: send on closed channel", "panic: close of closed channel"}
    /\ Drained => resultsClosed = 1 /\ results = <<>>
    /\ exitStatus = "exit 0" => jobsClosed = 1 /\ resultsClosed = 1

C4_Witness ==
    /\ resultsClosed = 1 /\ results # <<>> /\ mainpc = "drain"
    /\ printed # <<>>

\* C5: under fair scheduling, with every request returning, a run that starts
\* the worker pool prints the summary and exits normally.
C5_PoolTerminates == PoolStarted ~> (exitStatus = "exit 0" /\ summary.printed)

C5_Witness ==
    /\ exitStatus = "exit 0" /\ summary.printed
    /\ \A k \in Workers : wpc[k] = "done"
    /\ closerpc = "done"
    /\ BagSize(printed) = PrefixLen

LoadsOK == ReadDomainsFromCSV(file).err = "nil"

\* C6 (as stated): the process ends abnormally only if the input file cannot
\* be loaded; a run whose input loads ends with the summary and exit status 0.
C6_AbnormalOnlyOnLoadFailure ==
    /\ exitStatus \notin {"running", "exit 0"} => ~LoadsOK
    /\ (LoadsOK /\ exitStatus # "running") => (exitStatus = "exit 0" /\ summary.printed)

HeaderOnly == file.exists /\ Len(file.records) = 1

EmptySummary ==
    [printed |-> TRUE, total |-> 0, successful |-> 0, failed |-> 0,
     statusCodes |-> <<>>, categoryStats |-> <<>>]

\* C7 (as stated): for a file with a header and no data rows nothing is
\* loaded, enqueued or produced, and the run ends with the all-zero summary.
C7_HeaderOnlySummary ==
    HeaderOnly =>
        /\ loaded = <<>> /\ sent = 0 /\ printed = <<>>
        /\ exitStatus # "running" => (exitStatus = "exit 0" /\ summary = EmptySummary)

Categories == DOMAIN categoryStats

\* C8: after any number of consumed results the per-category Total, Success
\* and Failed sum to the number of results consumed, to successful and to
\* failed, and in each category Total = Success + Failed.
C8_CategorySums ==
    /\ BagSize([c \in Categories |-> categoryStats[c].Total]) = BagSize(printed)
    /\ BagSize([c \in Categories |-> categoryStats[c].Success]) = successful
    /\ BagSize([c \in Categories |-> categoryStats[c].Failed]) = failed
    /\ \A c \in Categories :
          categoryStats[c].Total = categoryStats[c].Success + categoryStats[c].Failed
    /\ summary.printed =>
          /\ summary.categoryStats = categoryStats
          /\ summary.successful = successful /\ summary.failed = failed

C8_Witness ==
    /\ summary.printed
    /\ \E c \in Categories : categoryStats[c].Success > 0 /\ categoryStats[c].Failed > 0
    /\ \E c \in Categories : categoryStats[c].Total >= 2 /\ categoryStats[c].Success = 0
    /\ Cardinality(Categories) >= 2

\* the step in which worker k leaves position pos
Leaves(k, pos) == wpc[k] = pos /\ wpc'[k] # pos

\* the step in which the aggregator takes the head of the result queue
Consumes == mainpc = "drain" /\ results # <<>> /\ results' = Tail(results)

\* C9: a failed probe never aborts the batch.  A worker whose request cannot
\* be built, or whose request fails, holds a Result with the error and the
\* job's Domain; it sends that Result and goes on (to the next job, or to the
\* sleep before it) while the process keeps running and every other worker
\* stays where it is; the aggregator tallies the Result as failed, globally and
\* in its category.
C9_FailureContained ==
    [][ /\ \A k \in Workers :
              /\ (Leaves(k, "recv") /\ wpc'[k] # "done" /\ Head(jobs).Name \in BadURLNames) =>
                    /\ wpc'[k] = "send"
                    /\ wres'[k].Error # "nil" /\ wres'[k].Domain = Head(jobs)
                    /\ exitStatus' = "running"
              /\ (Leaves(k, "do") /\ wres'[k].Error # "nil") =>
                    /\ wpc'[k] = "send"
                    /\ wres'[k].Domain = wres[k].Domain
                    /\ exitStatus' = "running"
              /\ ((wpc[k] = "send" /\ wres[k].Error # "nil" /\ Len(results) < chanCap
                     /\ (wpc'[k] # "send" \/ exitStatus' # exitStatus)) =>
                    /\ results' = Append(results, wres[k])
                    /\ wpc'[k] \in {"recv", "sleep"}
                    /\ exitStatus' = "running"
                    /\ \A j \in Workers \ {k} : wpc'[j] = wpc[j] /\ wres'[j] = wres[j])
        /\ (Consumes /\ Head(results).Error # "nil") =>
              /\ failed' = failed + 1
              /\ successful' = successful
              /\ Head(results).Domain.Category \in DOMAIN categoryStats'
              /\ categoryStats'[Head(results).Domain.Category].Failed =
                    MapGet(categoryStats, Head(results).Domain.Category, ZeroStats).Failed + 1
              /\ exitStatus' = "running"
      ]_vars

\* a failure has been tallied, the worker that hit a failure is back at its
\* dequeue, and another worker is in a request
C9_Witness ==
    /\ failed > 0
    /\ exitStatus = "running"
    /\ \E k \in Workers : wpc[k] = "do"
    /\ \E k \in Workers : wpc[k] \in {"recv", "sleep"}
    /\ jobs # <<>>

AddLine(l) == MapPut(printed, l, MapGet(printed, l, 0) + 1)

\* C10: the aggregator counts a result without error as successful whatever
\* its status code and prints it with the "ok" icon below 400 and the
\* "warning" icon from 400 on; it counts a result with an error as failed and
\* prints it with the error icon.
C10_Classification ==
    [][ Consumes =>
          LET r == Head(results)
              d == r.Domain
          IN  IF r.Error = "nil"
              THEN /\ successful' = successful + 1
                   /\ failed' = failed
                   /\ printed' = AddLine([icon |-> IF r.StatusCode < 400 THEN "ok" ELSE "warning",
                                          Name |-> d.Name, Category |-> d.Category,
                                          text |-> << "Status", r.StatusCode >>])
              ELSE /\ failed' = failed + 1
                   /\ successful' = successful
                   /\ printed' = AddLine([icon |-> "error", Name |-> d.Name,
                                          Category |-> d.Category,
                                          text |-> << "Error", r.Error >>])
      ]_vars

\* a redirect printed as ok, a 404 printed as a warning and a failure printed
\* as an error, all counted
C10_Witness ==
    /\ \E l \in StatusLines : l.text[2] = 301 /\ l.icon = "ok"
    /\ \E l \in StatusLines : l.text[2] = 404 /\ l.icon = "warning"
    /\ \E l \in ErrorLines : l.icon = "error"
    /\ successful >= 2 /\ failed >= 1

\* the data rows of the input file
DataRows == SubSeq(file.records, 2, Len(file.records))

\* The input is valid by the rules of the CSV format: the file opens, has a
\* header, every record parses and has as many fields as the header.
ValidFile ==
    /\ file.exists /\ file.records # <<>>
    /\ \A i \in 1..Len(file.records) :
          ~IsParseError(file.records[i]) /\ Len(file.records[i]) = Len(file.records[1])

\* main has the loader's answer
AfterLoad == mainpc # "load" \/ exitStatus # "running"

RowDomain(rec) == [Name |-> rec[1], Category |-> rec[2]]

\* C11: for a valid file whose H data rows all have at least 2 columns the
\* loader returns exactly H records, the i-th being (column 0, column 1) of the
\* i-th data row, the header not among them.
C11_LoaderReturnsRows ==
    (AfterLoad /\ ValidFile /\ \A i \in 1..Len(DataRows) : Len(DataRows[i]) >= 2) =>
        /\ exitStatus # "fatal"
        /\ loaded = [i \in 1..Len(DataRows) |-> RowDomain(DataRows[i])]

\* a loaded file of MaxRows two-field rows, one of them repeated
C11_Witness ==
    /\ AfterLoad /\ ValidFile
    /\ Len(loaded) = MaxRows
    /\ Len(file.records[1]) = 2
    /\ \E i, j \in 1..Len(loaded) : i # j /\ loaded[i] = loaded[j]
    /\ \E i \in 1..Len(loaded) : loaded[i] # loaded[1]

\* every data row either has the header's number of fields or fewer than 2
OnlyShortRowsDiffer ==
    /\ file.exists /\ file.records # <<>>
    /\ \A i \in 1..Len(file.records) : ~IsParseError(file.records[i])
    /\ \A i \in 1..Len(DataRows) :
          Len(DataRows[i]) = Len(file.records[1]) \/ Len(DataRows[i]) < 2

RECURSIVE LongRows(_)
LongRows(rows) ==
    IF rows = <<>> THEN <<>>
    ELSE IF Len(Head(rows)) >= 2 THEN << RowDomain(Head(rows)) >> \o LongRows(Tail(rows))
    ELSE LongRows(Tail(rows))

\* C12 (as stated): a data row with fewer than 2 columns is left out of the
\* returned records and does not make the load fail, whatever the number of
\* columns of the header: the other rows are loaded.
C12_ShortRowsSkipped ==
    (AfterLoad /\ OnlyShortRowsDiffer) =>
        /\ exitStatus # "fatal"
        /\ loaded = LongRows(DataRows)

\* C13: when loading fails nothing of the pool ever exists: no worker is
\* started, no job enqueued, no request issued, no line and no summary
\* printed; main stays at the load and the process ends with the fatal error.
C13_LoadFailureAborts ==
    ~LoadsOK =>
        /\ mainpc = "load"
        /\ exitStatus \in {"running", "fatal"}
        /\ Workers = {} /\ wg = 0 /\ closerpc = "none"
        /\ sent = 0 /\ jobs = <<>> /\ chanCap = 0
        /\ inflight = 0 /\ results = <<>>
        /\ printed = <<>> /\ ~summary.printed

\* the run was aborted by a malformed data row after good ones
C13_Witness ==
    /\ exitStatus = "fatal"
    /\ ReadDomainsFromCSV(file).err = "error reading record"
    /\ Len(file.records) >= 3

AggCounters == << successful, failed, statusCodes, categoryStats, printed >>

AllWorkersDone == Cardinality(Workers) = numWorkers /\ \A k \in Workers : wpc[k] = "done"

\* C14: the aggregator drains, then summarizes.  It leaves the drain loop, and
\* prints the summary, only with the result queue closed and empty, every
\* worker returned and as many results consumed as jobs were enqueued; from
\* then on no line is printed and no counter changes; the summary is printed
\* from the final counters and never changes again.
C14_DrainThenSummarize ==
    [][ /\ Drained => UNCHANGED AggCounters
        /\ summary.printed => UNCHANGED summary
        /\ (Drained' /\ (~Drained \/ summary' # summary)) =>
              /\ resultsClosed = 1 /\ results = <<>>
              /\ AllWorkersDone
              /\ sent = domains.len /\ BagSize(printed) = sent
        /\ summary' # summary =>
              /\ mainpc = "summary"
              /\ summary' = [printed |-> TRUE, total |-> domains.len,
                             successful |-> successful, failed |-> failed,
                             statusCodes |-> statusCodes, categoryStats |-> categoryStats]
      ]_vars

\* the aggregator is between its two phases, all results consumed
C14_Witness ==
    /\ mainpc = "summary" /\ ~summary.printed
    /\ BagSize(printed) = PrefixLen
    /\ successful > 0 /\ failed > 0

\* worker k arrives at its dequeue
ArrivesAtDequeue(k) == wpc[k] # "recv" /\ wpc'[k] = "recv"

\* C15 (as stated): a worker arrives at the dequeue of its next job only from
\* the sleep, whatever the outcome of the job before.
C15_AlwaysSleeps ==
    [][ \A k \in Workers : ArrivesAtDequeue(k) => wpc[k] = "sleep" ]_vars

\* C15 (amended): after a job whose request was issued (answered or failed in
\* transport) the worker goes from the send of the Result to the sleep and
\* from the sleep to the dequeue; after a request construction failure it
\* goes from the send to the dequeue directly.
C15_SleepAfterRequest ==
    [][ \A k \in Workers :
          /\ ArrivesAtDequeue(k) =>
                (wpc[k] = "sleep" \/ (wpc[k] = "send" /\ wres[k].Error = "request"))
          /\ (wpc[k] = "send" /\ wpc'[k] # "send") =>
                wpc'[k] = (IF wres[k].Error = "request" THEN "recv" ELSE "sleep")
      ]_vars

\* a worker sleeps after a transport failure while a request construction
\* failure has been sent too
C15_Witness ==
    /\ \E k \in Workers : wpc[k] = "sleep"
    /\ \E i \in 1..Len(results) : results[i].Error = "transport"
    /\ \E i \in 1..Len(results) : results[i].Error = "request"
    /\ \E k \in Workers : wpc[k] = "recv"

\* the Results that exist: on the result queue or about to be sent
Emitted == Range(results) \cup { wres[k] : k \in { j \in Workers : wpc[j] = "send" } }

CodeLines(c) == { l \in StatusLines : l.text[2] = c }

\* C17: every Result has either an error and the zero status code, or no
\* error and the status code of the response; the histogram counts exactly the
\* results consumed without error, code by code, so its counts sum to
\* successful and no failed Result has an entry.
C17_OneOutcome ==
    /\ \A r \in Emitted :
          \/ r.Error # "nil" /\ r.StatusCode = 0
          \/ r.Error = "nil" /\ r.StatusCode = ServerStatus(r.Domain.Name) /\ r.StatusCode # 0
    /\ BagSize(statusCodes) = successful
    /\ 0 \notin DOMAIN statusCodes
    /\ \A c \in DOMAIN statusCodes :
          statusCodes[c] = BagSize([l \in CodeLines(c) |-> printed[l]])
    /\ \A l \in StatusLines : l.text[2] \in DOMAIN statusCodes

C17_Witness ==
    /\ Cardinality(DOMAIN statusCodes) >= 2
    /\ \E c \in DOMAIN statusCodes : statusCodes[c] >= 2
    /\ failed > 0 /\ ErrorLines # {}

\* C18: both queues hold at most len(domains) items, which is their capacity,
\* so main's enqueue of the next job and a worker's send of its Result always
\* find room.
C18_SendsNeverBlock ==
    /\ Len(jobs) <= domains.len /\ Len(results) <= domains.len
    /\ mainpc \notin {"load", "slice", "make"} => chanCap = domains.len
    /\ (mainpc = "enqueue" /\ sent < domains.len) => Len(jobs) < chanCap
    /\ \A k \in Workers : wpc[k] = "send" => Len(results) < chanCap

\* every result is queued and the aggregator has not started to drain
C18_Witness ==
    /\ Len(results) = PrefixLen
    /\ mainpc \in {"enqueue", "closejobs", "gocloser"}

Min(a, b) == IF a < b THEN a ELSE b

\* C19 (as stated): the jobs enqueued are a prefix of the loaded records, of
\* at most min(PrefixLen, number loaded) of them, all of them once jobs is
\* closed.
C19_JobsArePrefixOfLoaded ==
    /\ sent <= Min(PrefixLen, Len(loaded))
    /\ \A i \in 1..sent : i <= Len(loaded) /\ domains.arr[i] = loaded[i]
    /\ jobsClosed > 0 => sent = Min(PrefixLen, Len(loaded))

\* the positions on the result queue of the Results worker k sent
QueuedBy(k) == { i \in 1..Len(hist.queue) : hist.queue[i].by = k }

\* the queue q without its element at position r
Without(q, r) == SubSeq(q, 1, r - 1) \o SubSeq(q, r + 1, Len(q))

\* C16: the result queue holds each worker's Results in the order in which
\* that worker dequeued their jobs (job indexes ascending) and ahead of the job
\* the worker holds, each Result carrying the Domain of its job; and the
\* Result the aggregator takes is, among the queued Results of the worker
\* that sent it, the one of the earliest job.
C16_PerWorkerOrder ==
    /\ [](hist.on =>
            /\ Len(hist.queue) = Len(results)
            /\ \A i \in 1..Len(results) : results[i].Domain = domains.arr[hist.queue[i].job]
            /\ \A k \in Workers :
                  /\ \A i, j \in QueuedBy(k) : i < j => hist.queue[i].job < hist.queue[j].job
                  /\ hist.held[k] # 0 =>
                        /\ \A i \in QueuedBy(k) : hist.queue[i].job < hist.held[k]
                        /\ wres[k].Domain = domains.arr[hist.held[k]])
    /\ [][ (hist.on /\ Len(results') < Len(results)) =>
              \E r \in 1..Len(results) :
                 /\ results' = Without(results, r)
                 /\ hist'.queue = Without(hist.queue, r)
                 /\ \A i \in QueuedBy(hist.queue[r].by) \ {r} :
                       hist.queue[r].job < hist.queue[i].job
         ]_vars

\* the aggregator has begun to drain, one worker has two Results queued and
\* the queue is not in input order
C16_Witness ==
    /\ hist.on
    /\ mainpc = "drain" /\ printed # <<>>
    /\ \E k \in Workers : Cardinality(QueuedBy(k)) >= 2
    /\ \E i, j \in 1..Len(hist.queue) : i < j /\ hist.queue[i].job > hist.queue[j].job

====
